---- MODULE Spec2Model ----
(***************************************************************************)
(* A model of twitter-scrapi's TwitterScrapper (src/main.py): the two      *)
(* blocking fetch operations run on the worker pool against the one shared *)
(* browser session, the profile and search extractors, and the three       *)
(* normalizers (username_cleaner, stat_cleaner,                            *)
(* convert_nitter_image_to_twitter).                                       *)
(*                                                                         *)
(* Text is a sequence of one-character strings, so that startswith,        *)
(* replace, strip, int() and unquote are computed character by character   *)
(* as Python computes them.  Python's None is the value None below, which  *)
(* is no text (its one element is not a character).                        *)
(***************************************************************************)
EXTENDS Integers, Sequences, FiniteSets, TLC

VARIABLES
    driver,     \* the shared browser session: the URL of its current page
    calls,      \* the fetch calls handed to the executor, one record each
    nurl,       \* convert_nitter_image_to_twitter: the argument
    nout,       \* ... its result, and the result of converting that again
    stat,       \* stat_cleaner: the argument
    sout,       \* ... its outcome (a value or a raised exception)
    phtml,      \* extract_profile_contents: the markup handed in
    pout,       \* ... its outcome
    shtml,      \* extract_search_contents: the markup handed in
    sres        \* ... its outcome

vars == <<driver, calls, nurl, nout, stat, sout, phtml, pout, shtml, sres>>

-----------------------------------------------------------------------------
(* Values *)

None == <<"None">>

\* The outcome of a Python call: a returned value or a raised exception.
Ok(v) == [ok |-> TRUE, val |-> v, err |-> "none"]
Raise(e) == [ok |-> FALSE, val |-> None, err |-> e]

\* The html argument when the fetch returned None.
NoMarkup == [kind |-> "none"]

\* The html variable of an extractor that is not called.
NoCall == [kind |-> "idle"]

\* A variable of an operation that has not run (yet).
NotRun == [ok |-> FALSE, val |-> None, err |-> "not run"]

\* s1 \o s2 \o ... for a sequence of texts.
RECURSIVE Join(_)
Join(parts) ==
    IF parts = <<>> THEN <<>> ELSE Head(parts) \o Join(Tail(parts))

\* All sequences over S of length at most n.
SeqUpTo(S, n) == UNION {[1..k -> S] : k \in 0..n}

-----------------------------------------------------------------------------
(* Python's str operations *)

\* s.startswith(p)
StartsWith(s, p) == Len(s) >= Len(p) /\ SubSeq(s, 1, Len(p)) = p

\* s.replace(old, new) for a non-empty old: every non-overlapping occurrence,
\* scanning from the left; the replacement is not scanned again.
RECURSIVE Replace(_, _, _)
Replace(s, old, new) ==
    IF s = <<>> THEN <<>>
    ELSE IF StartsWith(s, old)
         THEN new \o Replace(SubSeq(s, Len(old) + 1, Len(s)), old, new)
         ELSE <<Head(s)>> \o Replace(Tail(s), old, new)

Whitespace == {" ", "\t", "\n", "\r"}

RECURSIVE LStrip(_)
LStrip(s) ==
    IF s # <<>> /\ Head(s) \in Whitespace THEN LStrip(Tail(s)) ELSE s

RECURSIVE RStrip(_)
RStrip(s) ==
    IF s # <<>> /\ s[Len(s)] \in Whitespace
    THEN RStrip(SubSeq(s, 1, Len(s) - 1)) ELSE s

\* s.strip()
Strip(s) == RStrip(LStrip(s))

Digits == <<"0", "1", "2", "3", "4", "5", "6", "7", "8", "9">>

IsDigit(c) == \E i \in 1..Len(Digits) : Digits[i] = c

DigitValue(c) == (CHOOSE i \in 1..Len(Digits) : Digits[i] = c) - 1

RECURSIVE DigitsToInt(_, _)
DigitsToInt(s, acc) ==
    IF s = <<>> THEN acc
    ELSE DigitsToInt(Tail(s), 10 * acc + DigitValue(Head(s)))

\* int(s) for a text over digits, "-", "+" and ",": surrounding whitespace
\* is dropped, one sign is allowed, at least one digit must follow, and
\* anything else raises ValueError.
PyInt(s) ==
    LET t == Strip(s)
        signed == t # <<>> /\ Head(t) \in {"-", "+"}
        body == IF signed THEN Tail(t) ELSE t
        n == DigitsToInt(body, 0)
    IN  IF body = <<>> \/ \E i \in 1..Len(body) : ~IsDigit(body[i])
        THEN Raise("ValueError")
        ELSE Ok(IF signed /\ Head(t) = "-" THEN 0 - n ELSE n)

HexDigits == <<"0", "1", "2", "3", "4", "5", "6", "7", "8", "9",
               "A", "B", "C", "D", "E", "F">>
HexLower == <<"0", "1", "2", "3", "4", "5", "6", "7", "8", "9",
              "a", "b", "c", "d", "e", "f">>

IsHex(c) == \E i \in 1..Len(HexDigits) : c \in {HexDigits[i], HexLower[i]}

HexValue(c) ==
    (CHOOSE i \in 1..Len(HexDigits) : c \in {HexDigits[i], HexLower[i]}) - 1

\* The printable ASCII characters, from code 32 (space) to code 126 (~);
\* code 96, which a string of this language cannot hold, is written \x60.
Ascii == <<" ","!","\"","#","$","%","&","'","(",")","*","+",",","-",".","/",
           "0","1","2","3","4","5","6","7","8","9",":",";","<","=",">","?",
           "@","A","B","C","D","E","F","G","H","I","J","K","L","M","N","O",
           "P","Q","R","S","T","U","V","W","X","Y","Z","[","\\","]","^","_",
           "\\x60","a","b","c","d","e","f","g","h","i","j","k","l","m","n","o",
           "p","q","r","s","t","u","v","w","x","y","z","{","|","}","~">>

\* The character a decoded byte stands for; a byte outside printable ASCII
\* is written as one replacement symbol.
Chr(n) == IF n - 31 \in 1..Len(Ascii) THEN Ascii[n - 31] ELSE "\\x"

\* urllib.parse.unquote: one pass, each "%" followed by two hex digits
\* becomes the byte they write; any other "%" is kept as it is.
RECURSIVE Unquote(_)
Unquote(s) ==
    IF s = <<>> THEN <<>>
    ELSE IF Head(s) = "%" /\ Len(s) >= 3 /\ IsHex(s[2]) /\ IsHex(s[3])
         THEN <<Chr(16 * HexValue(s[2]) + HexValue(s[3]))>>
              \o Unquote(SubSeq(s, 4, Len(s)))
         ELSE <<Head(s)>> \o Unquote(Tail(s))

-----------------------------------------------------------------------------
(* Module constants and the normalizers *)

DOMAIN_ == <<"h","t","t","p","s",":","/","/","n","i","t","t","e","r",".",
             "n","e","t">>

TWITTER_IMG_DOMAIN == <<"h","t","t","p","s",":","/","/","p","b","s",".",
                        "t","w","i","m","g",".","c","o","m">>

\* f"{DOMAIN}/pic/"
PicPrefix == DOMAIN_ \o <<"/", "p", "i", "c", "/">>

\* f"{TWITTER_IMG_DOMAIN}/"
CdnPrefix == TWITTER_IMG_DOMAIN \o <<"/">>

username_cleaner(username) == Replace(username, <<"@">>, <<>>)

\* int(stat.replace(",", "")) if stat else 0: None and the empty text are
\* falsy.
stat_cleaner(s) ==
    IF s = None \/ s = <<>> THEN Ok(0)
    ELSE PyInt(Replace(s, <<",">>, <<>>))

\* A converter that percent-decodes whether or not the prefix is there.
convert_always_unquote(nitter_url) ==
    Unquote(Replace(nitter_url, PicPrefix, CdnPrefix))

convert_nitter_image_to_twitter(nitter_url) ==
    IF StartsWith(nitter_url, PicPrefix)
    THEN Unquote(Replace(nitter_url, PicPrefix, CdnPrefix))
    ELSE nitter_url

-----------------------------------------------------------------------------
(* The normalizers, applied to inputs drawn from bounded sets *)

MaxParts == 3
MaxStatLen == 4

\* What an image URL is put together from: the mirror's image-proxy prefix,
\* the CDN prefix, the mirror's root, an escaped "/", an escaped "%", the
\* two hex digits of "/", and a plain character.
UrlPieces ==
    { PicPrefix, CdnPrefix, DOMAIN_ \o <<"/">>, <<"%", "2", "F">>,
      <<"%", "2", "5">>, <<"2", "F">>, <<"a">> }

NormInputs == {Join(ps) : ps \in SeqUpTo(UrlPieces, MaxParts)}

StatChars == {"0", "1", "2", ",", "-"}

StatInputs == {None} \cup SeqUpTo(StatChars, MaxStatLen)

Ran(o) == o.err # "not run"

IdleNorm == nurl = <<>> /\ nout = <<None, None>>
IdleStat == stat = None /\ sout = NotRun
IdleProfile == phtml = NoCall /\ pout = NotRun
IdleSearch == shtml = NoCall /\ sres = NotRun
IdleFetch == driver = None /\ calls = <<>>

\* convert_nitter_image_to_twitter(nurl)
Convert ==
    /\ nout[1] = None
    /\ nout' = <<convert_nitter_image_to_twitter(nurl), None>>
    /\ UNCHANGED <<driver, calls, nurl, stat, sout, phtml, pout, shtml, sres>>

\* ... and the converter applied to its own result
ConvertAgain ==
    /\ nout[1] # None
    /\ nout[2] = None
    /\ nout' = <<nout[1], convert_nitter_image_to_twitter(nout[1])>>
    /\ UNCHANGED <<driver, calls, nurl, stat, sout, phtml, pout, shtml, sres>>

InitNorm ==
    /\ nurl \in NormInputs
    /\ nout = <<None, None>>
    /\ IdleStat /\ IdleProfile /\ IdleSearch /\ IdleFetch

NextNorm == Convert \/ ConvertAgain

SpecNorm == InitNorm /\ [][NextNorm]_vars

\* stat_cleaner(stat)
Clean ==
    /\ ~Ran(sout)
    /\ sout' = stat_cleaner(stat)
    /\ UNCHANGED <<driver, calls, nurl, nout, stat, phtml, pout, shtml, sres>>

InitStat ==
    /\ stat \in StatInputs
    /\ sout = NotRun
    /\ IdleNorm /\ IdleProfile /\ IdleSearch /\ IdleFetch

NextStat == Clean

SpecStat == InitStat /\ [][NextStat]_vars

-----------------------------------------------------------------------------
(* Claims about the normalizers *)

\* C5: convert_nitter_image_to_twitter is idempotent: converting the result
\* of a conversion again returns it unchanged, for every input URL.
C5_Idempotent == nout[2] # None => nout[2] = nout[1]

\* C5's case: a URL with the image-proxy prefix was rewritten, its result
\* still holds a percent escape, and the result was converted again.
C5_Witness ==
    /\ nout[2] # None
    /\ StartsWith(nurl, PicPrefix)
    /\ nout[1] # nurl
    /\ \E i \in 1..Len(nout[1]) : nout[1][i] = "%"

\* C6: a URL that begins with the image-proxy prefix becomes the CDN prefix
\* followed by the percent-decoded rest of the URL after that leading prefix
\* (only the leading prefix is substituted); any other URL is returned
\* unchanged.
C6_LeadingPrefixOnly ==
    nout[1] # None =>
        nout[1] = IF StartsWith(nurl, PicPrefix)
                  THEN CdnPrefix
                       \o Unquote(SubSeq(nurl, Len(PicPrefix) + 1, Len(nurl)))
                  ELSE nurl

\* What convert_nitter_image_to_twitter does instead: every occurrence of
\* the prefix is substituted, then the whole text is percent-decoded; a URL
\* without the leading prefix is returned unchanged.
C6_EveryOccurrence ==
    nout[1] # None =>
        nout[1] = IF StartsWith(nurl, PicPrefix)
                  THEN Unquote(CdnPrefix
                               \o Replace(SubSeq(nurl, Len(PicPrefix) + 1, Len(nurl)),
                                          PicPrefix, CdnPrefix))
                  ELSE nurl

IsStatText(s) ==
    s # None /\ \A i \in 1..Len(s) : IsDigit(s[i]) \/ s[i] = ","

HasDigit(s) == \E i \in 1..Len(s) : IsDigit(s[i])

\* The integer the digits of s write, the separators left out.
WrittenValue(s) == DigitsToInt(SelectSeq(s, IsDigit), 0)

\* C7: for every text made of decimal digits and "," stat_cleaner returns
\* the integer written by the digits, and 0 for an empty or absent input;
\* the result is always a non-negative integer.
C7_ParseCount ==
    (Ran(sout) /\ (stat = None \/ IsStatText(stat))) =>
        /\ sout.ok
        /\ sout.val \in Nat
        /\ (stat = None \/ stat = <<>>) => sout.val = 0
        /\ (stat # None /\ HasDigit(stat)) => sout.val = WrittenValue(stat)

\* The part of C7 that holds: a text of digits and "," with at least one
\* digit gives the integer its digits write, an empty or absent input 0;
\* a text of separators alone raises ValueError.
C7_ParseCountWithDigit ==
    Ran(sout) =>
        /\ (stat = None \/ stat = <<>>) => sout = Ok(0)
        /\ (IsStatText(stat) /\ HasDigit(stat)) => sout = Ok(WrittenValue(stat))
        /\ (IsStatText(stat) /\ stat # <<>> /\ ~HasDigit(stat)) =>
               ~sout.ok /\ sout.err = "ValueError"

-----------------------------------------------------------------------------
(* The parsed page: what BeautifulSoup's selectors find *)

(***************************************************************************)
(* A page is given by what each selector of the extractors finds in it:    *)
(* None where select_one finds no element, the text of the element (or the *)
(* value of the attribute read from it) where it finds one, and the        *)
(* sequence of the matches in document order for select.  An element that  *)
(* is found has a text, which may be empty, and the attribute read from    *)
(* it.                                                                     *)
(*                                                                         *)
(* A profile page:                                                         *)
(*   fullname   .profile-card-fullname                                     *)
(*   username   .profile-card-username                                     *)
(*   bio        .profile-bio p                                             *)
(*   location   .profile-location span:nth-of-type(2)                      *)
(*   joindate   .profile-joindate span                                     *)
(*   posts      .posts .profile-stat-num                                   *)
(*   following  .following .profile-stat-num                               *)
(*   followers  .followers .profile-stat-num                               *)
(*   likes      .likes .profile-stat-num                                   *)
(*   avatar     .profile-card-avatar img, its src                          *)
(*   banner     .profile-banner img, its src                               *)
(*   items      .timeline-item, every match                                *)
(*   rail       .photo-rail-grid a img, the src of every match             *)
(*                                                                         *)
(* A timeline item of a profile page:                                      *)
(*   content    .tweet-content                                             *)
(*   date       .tweet-date a                                              *)
(*   heart      .icon-heart, the text of its parent                        *)
(*   comment    .icon-comment, the text of its parent                      *)
(*   retweet    .icon-retweet, the text of its parent                      *)
(*   link       .tweet-link, its href                                      *)
(*   images     .attachment.image img, the src of every match              *)
(*   rtheader   .retweet-header div                                        *)
(*   replying   .tweet-body .replying-to a                                 *)
(***************************************************************************)

\* Image sources as the mirror writes them: a proxied CDN image, a second
\* one, and an image of the mirror itself.
SrcMedia == <<"/", "p", "i", "c", "/", "m", "e", "d", "i", "a", "%", "2", "F", "a", ".", "j", "p", "g">>
SrcOther == <<"/", "p", "i", "c", "/", "b", ".", "p", "n", "g">>
SrcLocal == <<"/", "l", "o", "g", "o", ".", "p", "n", "g">>

\* The images of a photo rail.
RailSrcs == {SrcMedia, SrcLocal}

\* BeautifulSoup(html, 'html.parser') of the None a failed fetch returned
\* raises TypeError.
ParseFault(html) == html.kind = "none"

\* select_one(...).text.strip() with no guard: None has no attribute text.
\* The guarded variant (a required element read the way bio is) follows
\* first.
GuardedText(el) == IF el = None THEN Ok(<<>>) ELSE Ok(Strip(el))

RequiredText(el) ==
    IF el = None THEN Raise("AttributeError") ELSE Ok(Strip(el))

\* select_one(...).text.strip() if select_one(...) else ""
OptionalText(el) == IF el = None THEN <<>> ELSE Strip(el)

\* convert_nitter_image_to_twitter(DOMAIN + img["src"])
ImageUrl(src) == convert_nitter_image_to_twitter(DOMAIN_ \o src)

\* select_one(...)["src"] with no guard: None is not subscriptable.
RequiredImage(src) ==
    IF src = None THEN Raise("TypeError") ELSE Ok(ImageUrl(src))

OptionalImage(src) == IF src = None THEN <<>> ELSE ImageUrl(src)

\* self.stat_cleaner(select_one(...).text.strip())
RequiredStat(el) ==
    IF el = None THEN Raise("AttributeError") ELSE stat_cleaner(Strip(el))

\* The first exception raised while the entries of a dict display are
\* evaluated in source order, if any.
FirstFault(outs) ==
    LET bad == {i \in 1..Len(outs) : ~outs[i].ok}
    IN  IF bad = {} THEN Ok(<<>>)
        ELSE outs[CHOOSE i \in bad : \A j \in bad : i <= j]

\* [f(x) for x in xs]
RECURSIVE MapImageUrl(_)
MapImageUrl(xs) ==
    IF xs = <<>> THEN <<>>
    ELSE <<ImageUrl(Head(xs))>> \o MapImageUrl(Tail(xs))

-----------------------------------------------------------------------------
(* extract_profile_contents *)

\* The profile dict (lines 97-111), its entries evaluated in source order.
profile(soup) ==
    LET full_name == RequiredText(soup.fullname)
        username == RequiredText(soup.username)
        join_date == RequiredText(soup.joindate)
        tweets == RequiredStat(soup.posts)
        following == RequiredStat(soup.following)
        followers == RequiredStat(soup.followers)
        likes == RequiredStat(soup.likes)
        profile_image == RequiredImage(soup.avatar)
        fault == FirstFault(<<full_name, username, join_date, tweets,
                              following, followers, likes, profile_image>>)
    IN  IF ~fault.ok THEN fault
        ELSE Ok([ full_name |-> full_name.val,
                  username |-> username_cleaner(username.val),
                  bio |-> OptionalText(soup.bio),
                  location |-> OptionalText(soup.location),
                  join_date |-> Strip(Replace(join_date.val,
                                              <<"J", "o", "i", "n", "e", "d">>, <<>>)),
                  tweets |-> tweets.val,
                  following |-> following.val,
                  followers |-> followers.val,
                  likes |-> likes.val,
                  profile_image |-> profile_image.val,
                  banner_image |-> OptionalImage(soup.banner) ])

\* select_one(icon).parent.text.strip() if select_one(icon) else "0"
IconCount(el) == IF el = None THEN <<"0">> ELSE Strip(el)

\* A tweet_data that takes the truth of the header's text for the truth of
\* the element.
tweet_data_text_truth(tweet) ==
    IF tweet.date = None THEN Raise("AttributeError")
    ELSE Ok([ content |-> OptionalText(tweet.content),
              date |-> Strip(tweet.date),
              likes |-> IconCount(tweet.heart),
              comments |-> IconCount(tweet.comment),
              retweets |-> IconCount(tweet.retweet),
              tweet_link |-> IF tweet.link = None THEN <<>> ELSE tweet.link,
              images |-> MapImageUrl(tweet.images),
              retweeted_by |-> IF tweet.rtheader = None THEN None
                               ELSE Strip(tweet.rtheader),
              is_retweet |-> tweet.rtheader # None /\ Strip(tweet.rtheader) # <<>>,
              is_reply |-> tweet.replying # None /\ Strip(tweet.replying) # <<>>,
              replying_to |-> IF tweet.replying = None THEN None
                              ELSE Strip(tweet.replying) ])

\* One pass of the loop body (lines 115-132): the tweet_data of one
\* timeline item, or the exception its date raises.  bool() of an element
\* that was found is True, whatever its text.
tweet_data(tweet) ==
    IF tweet.date = None THEN Raise("AttributeError")
    ELSE Ok([ content |-> OptionalText(tweet.content),
              date |-> Strip(tweet.date),
              likes |-> IconCount(tweet.heart),
              comments |-> IconCount(tweet.comment),
              retweets |-> IconCount(tweet.retweet),
              tweet_link |-> IF tweet.link = None THEN <<>> ELSE tweet.link,
              images |-> MapImageUrl(tweet.images),
              retweeted_by |-> IF tweet.rtheader = None THEN None
                               ELSE Strip(tweet.rtheader),
              is_retweet |-> tweet.rtheader # None,
              is_reply |-> tweet.replying # None,
              replying_to |-> IF tweet.replying = None THEN None
                              ELSE Strip(tweet.replying) ])

\* A loop that skips the items whose extraction raises.
RECURSIVE tweets_skipping(_)
tweets_skipping(items) ==
    IF items = <<>> THEN Ok(<<>>)
    ELSE LET first == tweet_data(Head(items))
             rest == tweets_skipping(Tail(items))
         IN  IF ~first.ok THEN rest ELSE Ok(<<first.val>> \o rest.val)

\* A loop that puts each entry in front of the list.
RECURSIVE tweets_prepending(_)
tweets_prepending(items) ==
    IF items = <<>> THEN Ok(<<>>)
    ELSE LET first == tweet_data(Head(items))
         IN  IF ~first.ok THEN first
             ELSE LET rest == tweets_prepending(Tail(items))
                  IN  IF ~rest.ok THEN rest ELSE Ok(rest.val \o <<first.val>>)

\* The loop over soup.select(".timeline-item") (lines 113-133): the list
\* of the items' tweet_data in document order; the first exception ends
\* the loop and the call.
RECURSIVE tweets_of(_)
tweets_of(items) ==
    IF items = <<>> THEN Ok(<<>>)
    ELSE LET first == tweet_data(Head(items))
         IN  IF ~first.ok THEN first
             ELSE LET rest == tweets_of(Tail(items))
                  IN  IF ~rest.ok THEN rest ELSE Ok(<<first.val>> \o rest.val)

extract_profile_contents(html) ==
    IF ParseFault(html) THEN Raise("TypeError")
    ELSE LET p == profile(html)
             tweets == tweets_of(html.items)
         IN  IF ~p.ok THEN p
             ELSE IF ~tweets.ok THEN tweets
             ELSE Ok([ profile |-> p.val,
                       tweets |-> tweets.val,
                       media |-> MapImageUrl(html.rail) ])

-----------------------------------------------------------------------------
(* extract_search_contents *)

\* In each timeline item of a search page:
\*   avatars  .profile-result .tweet-avatar img [src], every match
\*   fullname .fullname    username .username    bio .tweet-content

\* One element of the list comprehension (lines 144-149), its entries
\* evaluated in source order: [0] of an empty select raises IndexError.
user_data(user) ==
    LET profile_image_url ==
            IF user.avatars = <<>> THEN Raise("IndexError")
            ELSE Ok(ImageUrl(user.avatars[1]))
        full_name == RequiredText(user.fullname)
        username == RequiredText(user.username)
        fault == FirstFault(<<profile_image_url, full_name, username>>)
    IN  IF ~fault.ok THEN fault
        ELSE Ok([ profile_image_url |-> profile_image_url.val,
                  full_name |-> full_name.val,
                  username |-> username.val,
                  bio |-> OptionalText(user.bio) ])

\* A comprehension that builds the list back to front.
RECURSIVE users_prepending(_)
users_prepending(items) ==
    IF items = <<>> THEN Ok(<<>>)
    ELSE LET first == user_data(Head(items))
         IN  IF ~first.ok THEN first
             ELSE LET rest == users_prepending(Tail(items))
                  IN  IF ~rest.ok THEN rest ELSE Ok(rest.val \o <<first.val>>)

\* The list comprehension over soup.select(".timeline-item") (lines
\* 143-151), in document order; the first exception ends the call.
RECURSIVE users_of(_)
users_of(items) ==
    IF items = <<>> THEN Ok(<<>>)
    ELSE LET first == user_data(Head(items))
         IN  IF ~first.ok THEN first
             ELSE LET rest == users_of(Tail(items))
                  IN  IF ~rest.ok THEN rest ELSE Ok(<<first.val>> \o rest.val)

extract_search_contents(html) ==
    IF ParseFault(html) THEN Raise("TypeError") ELSE users_of(html.items)

-----------------------------------------------------------------------------
(* The extractors, applied to pages drawn from bounded sets *)

MaxItems == 2
MaxRail == 1
MaxUsers == 2

Required == {"fullname", "username", "joindate", "posts", "following",
             "followers", "likes", "avatar"}

Optional == {"bio", "location", "banner"}

\* The required elements a page lacks: none, any one, or all of them.
MissingSets == {{}} \cup {{r} : r \in Required} \cup {Required}

\* The optional elements a page has.
OptionalSets == {{}, {"bio", "location"}, {"banner"}, Optional}

\* The display texts of the four stats (posts, following, followers,
\* likes) as the mirror renders counts: digits in groups of three, or
\* nothing.
StatRows ==
    { <<<<" ", "1", ",", "2", "0", "0", " ">>, <<"1", "2">>, <<>>, <<"0">>>>,
      <<<<"7">>, <<"1", ",", "0", "0", "0", ",", "0", "0", "0">>, <<"2", "1">>, <<>>>> }

ProfilePage(missing, optional, row, items, rail) ==
    LET req(name, text) == IF name \in missing THEN None ELSE text
        opt(name, text) == IF name \in optional THEN text ELSE None
    IN  [ kind |-> "profile",
          fullname |-> req("fullname", <<" ", "A", "n", "n", " ", "L", "e", "e", " ">>),
          username |-> req("username", <<"@", "a", "n", "n", "@">>),
          bio |-> opt("bio", <<" ", "h", "i", " ">>),
          location |-> opt("location", <<"O", "s", "l", "o">>),
          joindate |-> req("joindate", <<"J", "o", "i", "n", "e", "d", " ", "M", "a", "y", " ", "2", "0", "2", "0">>),
          posts |-> req("posts", row[1]),
          following |-> req("following", row[2]),
          followers |-> req("followers", row[3]),
          likes |-> req("likes", row[4]),
          avatar |-> req("avatar", SrcMedia),
          banner |-> opt("banner", SrcOther),
          items |-> items,
          rail |-> rail ]

\* A timeline item of a profile page with nothing but its date link.
BareItem(date) ==
    [ content |-> None, date |-> date, heart |-> None, comment |-> None,
      retweet |-> None, link |-> None, images |-> <<>>, rtheader |-> None,
      replying |-> None ]

\* The timeline items of a profile page: a bare one, a plain tweet, a
\* retweet, a retweet whose header has no text, a reply, a retweeted reply
\* with two images, and an item without the date link.
ItemKinds ==
    { BareItem(<<"1", "h">>),
      [BareItem(<<" ", "2", "h", " ">>) EXCEPT !.content = <<" ", "h", "e", "l", "l", "o", " ">>,
           !.heart = <<" ", "1", ",", "0", "2", "4", " ">>, !.comment = <<"3">>,
           !.retweet = <<>>, !.link = <<"/", "a", "n", "n", "/", "s", "t", "a", "t", "u", "s", "/", "1", "#", "m">>],
      [BareItem(<<"3", "h">>) EXCEPT !.content = <<"r", "t">>,
           !.rtheader = <<" ", "B", "o", "b", " ", "r", "e", "t", "w", "e", "e", "t", "e", "d", " ">>, !.images = <<SrcMedia>>],
      [BareItem(<<"4", "h">>) EXCEPT !.rtheader = <<" ">>],
      [BareItem(<<"5", "h">>) EXCEPT !.replying = <<"@", "b", "o", "b">>],
      [BareItem(<<"6", "h">>) EXCEPT !.rtheader = <<"C", "y", " ", "r", "e", "t", "w", "e", "e", "t", "e", "d">>,
           !.replying = <<>>, !.images = <<SrcLocal, SrcMedia>>],
      [BareItem(None) EXCEPT !.content = <<"p", "i", "n", "n", "e", "d">>,
           !.rtheader = <<"x">>] }

ProfilePages ==
    { ProfilePage(missing, optional, row, items, rail) :
        missing \in MissingSets, optional \in OptionalSets, row \in StatRows,
        items \in SeqUpTo(ItemKinds, MaxItems), rail \in SeqUpTo(RailSrcs, MaxRail) }

\* The timeline items of a search page.
UserKinds ==
    [ avatars : {<<>>, <<SrcMedia>>, <<SrcLocal, SrcMedia>>},
      fullname : {None, <<" ", "A", "n", "n", " ", "L", "e", "e", " ">>, <<"B", "o", "b">>},
      username : {None, <<" ", "@", "a", "n", "n", " ">>},
      bio : {None, <<" ", "h", "i", " ">>} ]

SearchPages ==
    { [kind |-> "search", items |-> items] :
        items \in SeqUpTo(UserKinds, MaxUsers) }

\* get_profile's second step: extract_profile_contents(html)
ExtractProfile ==
    /\ phtml.kind # "idle"
    /\ ~Ran(pout)
    /\ pout' = extract_profile_contents(phtml)
    /\ UNCHANGED <<driver, calls, nurl, nout, stat, sout, phtml, shtml, sres>>

\* search's second step: extract_search_contents(html)
ExtractSearch ==
    /\ shtml.kind # "idle"
    /\ ~Ran(sres)
    /\ sres' = extract_search_contents(shtml)
    /\ UNCHANGED <<driver, calls, nurl, nout, stat, sout, phtml, pout, shtml>>

InitExtract ==
    /\ \/ phtml \in ProfilePages \cup {NoMarkup} /\ shtml = NoCall
       \/ shtml \in SearchPages \cup {NoMarkup} /\ phtml = NoCall
    /\ pout = NotRun
    /\ sres = NotRun
    /\ IdleNorm /\ IdleStat /\ IdleFetch

NextExtract == ExtractProfile \/ ExtractSearch

SpecExtract == InitExtract /\ [][NextExtract]_vars

-----------------------------------------------------------------------------
(* Claims about the extractors *)

IsProfilePage == phtml.kind = "profile"
IsSearchPage == shtml.kind = "search"

LacksRequired(page) == \E r \in Required : page[r] = None

HasDate(item) == item.date # None

HasUserParts(user) ==
    user.avatars # <<>> /\ user.fullname # None /\ user.username # None

\* The URL each image source of the pages stands for at the origin CDN
\* (or at the mirror, for an image the mirror does not proxy).
ExpectedUrl(src) ==
    CASE src = SrcMedia -> <<"h", "t", "t", "p", "s", ":", "/", "/", "p", "b", "s", ".", "t", "w", "i", "m", "g", ".", "c", "o", "m", "/", "m", "e", "d", "i", "a", "/", "a", ".", "j", "p", "g">>
      [] src = SrcOther -> <<"h", "t", "t", "p", "s", ":", "/", "/", "p", "b", "s", ".", "t", "w", "i", "m", "g", ".", "c", "o", "m", "/", "b", ".", "p", "n", "g">>
      [] src = SrcLocal -> <<"h", "t", "t", "p", "s", ":", "/", "/", "n", "i", "t", "t", "e", "r", ".", "n", "e", "t", "/", "l", "o", "g", "o", ".", "p", "n", "g">>

\* The exceptions an unguarded use of a missing element raises: the
\* template-mismatch failure the specification calls MalformedPage.
MalformedPage == {"AttributeError", "TypeError"}

\* C2: extraction of a profile page that lacks a required element (full
\* name, username, join date, a stat count, profile image) fails with the
\* template-mismatch error and returns no bundle; a page without the
\* full-name element fails at the full name's dereference.
C2_MissingRequiredFails ==
    (Ran(pout) /\ IsProfilePage /\ LacksRequired(phtml)) =>
        /\ ~pout.ok
        /\ pout.err \in MalformedPage
        /\ pout.val = None
        /\ phtml.fullname = None => pout.err = "AttributeError"

\* C2's case: a page whose only missing required element is the full name
\* was extracted.
C2_Witness ==
    /\ Ran(pout) /\ IsProfilePage
    /\ phtml.fullname = None
    /\ \A r \in Required \ {"fullname"} : phtml[r] # None
    /\ \A i \in 1..Len(phtml.items) : HasDate(phtml.items[i])
    /\ ~pout.ok

\* C3: for a search page in which every timeline item has an avatar image,
\* a full name and a username, the result is a list with exactly one record
\* per item, in the order of the items in the markup.
C3_OneUserPerItemInOrder ==
    (Ran(sres) /\ IsSearchPage
        /\ \A i \in 1..Len(shtml.items) : HasUserParts(shtml.items[i])) =>
        /\ sres.ok
        /\ Len(sres.val) = Len(shtml.items)
        /\ \A i \in 1..Len(shtml.items) :
              /\ sres.val[i].full_name = Strip(shtml.items[i].fullname)
              /\ sres.val[i].username = Strip(shtml.items[i].username)
              /\ sres.val[i].profile_image_url
                     = ExpectedUrl(shtml.items[i].avatars[1])

\* C3's case: a search page with two different complete items was
\* extracted.
C3_Witness ==
    /\ Ran(sres) /\ IsSearchPage
    /\ Len(shtml.items) = 2
    /\ HasUserParts(shtml.items[1]) /\ HasUserParts(shtml.items[2])
    /\ shtml.items[1].fullname # shtml.items[2].fullname
    /\ sres.ok /\ Len(sres.val) = 2

C4_EmptyPage ==
    (Ran(pout) /\ IsProfilePage /\ ~LacksRequired(phtml)
        /\ phtml.items = <<>> /\ phtml.rail = <<>>) =>
        pout.ok /\ pout.val.tweets = <<>> /\ pout.val.media = <<>>

\* C9: in every timeline entry produced, is_retweet is true exactly when
\* retweeted_by is present, which is exactly when the item has a
\* retweet-header element, and is_reply is true exactly when replying_to is
\* present, which is exactly when the item has a replying-to link; without
\* the element the flag is false and the text absent.
C9_FlagsFollowPresence ==
    (Ran(pout) /\ IsProfilePage /\ pout.ok) =>
        \A i \in 1..Len(pout.val.tweets) :
            LET e == pout.val.tweets[i]
                item == phtml.items[i]
            IN  /\ e.is_retweet = (e.retweeted_by # None)
                /\ e.is_retweet = (item.rtheader # None)
                /\ e.is_reply = (e.replying_to # None)
                /\ e.is_reply = (item.replying # None)
                /\ item.rtheader # None => e.retweeted_by = Strip(item.rtheader)
                /\ item.replying # None => e.replying_to = Strip(item.replying)

\* C9's case: an entry of a retweet whose header element has no text (the
\* flag is true, the text present and empty) beside an entry without the
\* header.
C9_Witness ==
    /\ Ran(pout) /\ IsProfilePage /\ pout.ok
    /\ \E i, j \in 1..Len(pout.val.tweets) :
          /\ pout.val.tweets[i].is_retweet
          /\ pout.val.tweets[i].retweeted_by = <<>>
          /\ ~pout.val.tweets[j].is_retweet
          /\ pout.val.tweets[j].retweeted_by = None

ItemFails(page) == \E i \in 1..Len(page.items) : ~HasDate(page.items[i])

UserFails(page) == \E i \in 1..Len(page.items) : ~HasUserParts(page.items[i])

\* C10: no partial results.  If a timeline item of a profile page has no
\* date link, or an item of a search page lacks its avatar image, full name
\* or username, the whole call fails and returns no records, those of the
\* items before the failing one included.
C10_NoPartialResults ==
    /\ (Ran(pout) /\ IsProfilePage /\ ItemFails(phtml)) =>
           ~pout.ok /\ pout.val = None
    /\ (Ran(sres) /\ IsSearchPage /\ UserFails(shtml)) =>
           ~sres.ok /\ sres.val = None

\* C10's case: a complete profile page whose second timeline item has no
\* date link, after a first item that has one, was extracted.
C10_Witness ==
    /\ Ran(pout) /\ IsProfilePage /\ ~LacksRequired(phtml)
    /\ Len(phtml.items) = 2
    /\ HasDate(phtml.items[1]) /\ ~HasDate(phtml.items[2])
    /\ ~pout.ok

\* ... and the same for a search page whose second item fails.
C10_WitnessSearch ==
    /\ Ran(sres) /\ IsSearchPage
    /\ Len(shtml.items) = 2
    /\ HasUserParts(shtml.items[1]) /\ ~HasUserParts(shtml.items[2])
    /\ ~sres.ok

-----------------------------------------------------------------------------
(* The fetch operations on the worker pool *)

MaxCalls == 2

\* ThreadPoolExecutor(max_workers=4)
max_workers == 4

Usernames == {<<"a", "n", "n">>}
Queries == {<<"a", "n", "n">>}
Dates == {None, <<"2", "0", "2", "0", "-", "0", "1", "-", "0", "1">>}

\* An argument as an f-string renders it: None is written "None".
Format(x) == IF x = None THEN <<"N", "o", "n", "e">> ELSE x

\* f"{DOMAIN}/{username}/search"
profile_url(username) ==
    DOMAIN_ \o <<"/">> \o Format(username) \o <<"/", "s", "e", "a", "r", "c", "h">>

\* f"{DOMAIN}/search?f=users&q={query}&since={from_date}&until={to_date}"
search_url(query, from_date, to_date) ==
    DOMAIN_ \o <<"/", "s", "e", "a", "r", "c", "h", "?", "f", "=", "u", "s", "e", "r", "s", "&", "q", "=">> \o Format(query)
            \o <<"&", "s", "i", "n", "c", "e", "=">> \o Format(from_date)
            \o <<"&", "u", "n", "t", "i", "l", "=">> \o Format(to_date)

\* The markup the mirror serves at a URL; None is the blank page of a new
\* session.
MarkupOf(url) == <<"markup of", url>>

\* A driver.get that leaves the session where it was.
navigate_nowhere(current, url) == current

\* self.driver.get(url): the session's one current page becomes url.
navigate(current, url) == url

\* self.driver.page_source: the markup of whatever page is current.
page_source(current) == MarkupOf(current)

\* A fetch without the try: the exception leaves the function.
on_fault_propagate(call, e) ==
    [call EXCEPT !.pc = "returned", !.error = e, !.raised = TRUE]

\* except Exception as e: print("Error:", e); return None
on_fault(call, e) ==
    [call EXCEPT !.pc = "returned", !.error = e, !.logged = @ + 1,
                 !.result = None]

\* run_in_thread(func, *args): loop.run_in_executor puts the call on the
\* executor's queue.
Submitted(op, url) ==
    [ op |-> op, url |-> url, pc |-> "queued", navs |-> 0, result |-> None,
      error |-> "none", raised |-> FALSE, logged |-> 0 ]

\* The call has caught or raised an exception.
Faulted(call) == call.error # "none"

Running == {c \in DOMAIN calls : calls[c].pc \in {"get", "sleep", "source"}}

\* get_profile(username), up to its await
GetProfile(username) ==
    /\ Len(calls) < MaxCalls
    /\ calls' = Append(calls, Submitted("profile_html_contents",
                                        profile_url(username)))
    /\ UNCHANGED <<driver, nurl, nout, stat, sout, phtml, pout, shtml, sres>>

\* search(query, from_date, to_date), up to its await
Search(query, from_date, to_date) ==
    /\ Len(calls) < MaxCalls
    /\ calls' = Append(calls, Submitted("search_html_contents",
                                        search_url(query, from_date, to_date)))
    /\ UNCHANGED <<driver, nurl, nout, stat, sout, phtml, pout, shtml, sres>>

\* A worker of the pool takes the oldest queued call; the pool runs at most
\* max_workers calls at a time.
Start(c) ==
    /\ calls[c].pc = "queued"
    /\ \A d \in 1..(c - 1) : calls[d].pc # "queued"
    /\ Cardinality(Running) < max_workers
    /\ calls' = [calls EXCEPT ![c].pc = "get"]
    /\ UNCHANGED <<driver, nurl, nout, stat, sout, phtml, pout, shtml, sres>>

\* self.driver.get(url) returns
Navigate(c) ==
    /\ calls[c].pc = "get"
    /\ driver' = navigate(driver, calls[c].url)
    /\ calls' = [calls EXCEPT ![c].pc = "sleep", ![c].navs = @ + 1]
    /\ UNCHANGED <<nurl, nout, stat, sout, phtml, pout, shtml, sres>>

\* self.driver.get(url) raises; the session is left on the old page or on
\* the new one.
NavigateFault(c) ==
    /\ calls[c].pc = "get"
    /\ driver' \in {driver, navigate(driver, calls[c].url)}
    /\ calls' = [calls EXCEPT ![c] = on_fault([@ EXCEPT !.navs = @ + 1], "get")]
    /\ UNCHANGED <<nurl, nout, stat, sout, phtml, pout, shtml, sres>>

\* time.sleep(5) returns
Settle(c) ==
    /\ calls[c].pc = "sleep"
    /\ calls' = [calls EXCEPT ![c].pc = "source"]
    /\ UNCHANGED <<driver, nurl, nout, stat, sout, phtml, pout, shtml, sres>>

\* an exception during the settling wait, which the try covers too
SettleFault(c) ==
    /\ calls[c].pc = "sleep"
    /\ calls' = [calls EXCEPT ![c] = on_fault(@, "sleep")]
    /\ UNCHANGED <<driver, nurl, nout, stat, sout, phtml, pout, shtml, sres>>

\* return self.driver.page_source
ReadSource(c) ==
    /\ calls[c].pc = "source"
    /\ calls' = [calls EXCEPT ![c].pc = "returned",
                              ![c].result = page_source(driver)]
    /\ UNCHANGED <<driver, nurl, nout, stat, sout, phtml, pout, shtml, sres>>

\* self.driver.page_source raises
ReadSourceFault(c) ==
    /\ calls[c].pc = "source"
    /\ calls' = [calls EXCEPT ![c] = on_fault(@, "page_source")]
    /\ UNCHANGED <<driver, nurl, nout, stat, sout, phtml, pout, shtml, sres>>

\* __init__: a new session on its blank page, an idle pool.
InitFetch ==
    /\ driver = None
    /\ calls = <<>>
    /\ IdleNorm /\ IdleStat /\ IdleProfile /\ IdleSearch

NextFetch ==
    \/ \E u \in Usernames : GetProfile(u)
    \/ \E q \in Queries, f \in Dates : Search(q, f, None)
    \/ \E c \in DOMAIN calls : Start(c)
    \/ \E c \in DOMAIN calls : Navigate(c)
    \/ \E c \in DOMAIN calls : NavigateFault(c)
    \/ \E c \in DOMAIN calls : Settle(c)
    \/ \E c \in DOMAIN calls : SettleFault(c)
    \/ \E c \in DOMAIN calls : ReadSource(c)
    \/ \E c \in DOMAIN calls : ReadSourceFault(c)

SpecFetch == InitFetch /\ [][NextFetch]_vars

-----------------------------------------------------------------------------
(* Claims about the fetch operations *)

Returned(c) == calls[c].pc = "returned"

\* C1: in both fetch operations, a fault of the navigation, of the settling
\* wait or of reading the page source makes the call return None, no
\* exception reaches the caller, and a call navigates exactly once: there
\* is no retry.
C1_FaultReturnsNone ==
    \A c \in DOMAIN calls :
        /\ calls[c].navs <= 1
        /\ Returned(c) => calls[c].navs = 1
        /\ (Returned(c) /\ Faulted(calls[c])) =>
               /\ calls[c].result = None
               /\ ~calls[c].raised
               /\ calls[c].logged = 1

\* C1's case: a profile fetch whose read of the page source raised and a
\* search fetch whose navigation raised have both returned.
C1_Witness ==
    \E c, d \in DOMAIN calls :
        /\ calls[c].op = "profile_html_contents"
        /\ calls[d].op = "search_html_contents"
        /\ Returned(c) /\ calls[c].error = "page_source"
        /\ Returned(d) /\ calls[d].error = "get"

\* C8: the calls share the one session with nothing to keep them apart, so
\* what a fetch returns is the markup of the page the session is on when it
\* reads: its own page, or the page another call has navigated to.
C8_ReturnsSomeCallsPage ==
    \A c \in DOMAIN calls :
        (Returned(c) /\ ~Faulted(calls[c])) =>
            \/ calls[c].result = MarkupOf(calls[c].url)
            \/ \E d \in DOMAIN calls \ {c} :
                  /\ calls[d].navs = 1
                  /\ calls[c].result = MarkupOf(calls[d].url)

\* C8's case: two calls were in the pool together, and one has returned the
\* markup of the page the other navigated to, not that of its own URL.
C8_Witness ==
    \E c, d \in DOMAIN calls :
        /\ c # d
        /\ calls[c].url # calls[d].url
        /\ Returned(c) /\ ~Faulted(calls[c])
        /\ calls[c].result = MarkupOf(calls[d].url)
        /\ calls[c].result # MarkupOf(calls[c].url)

====
